---- MODULE Spec2Model ----
(***************************************************************************)
(* Fenton-Karma reaction-diffusion solver (src/cardiax/solve.py): the      *)
(* stimulus protocol engine, the finite-difference gradient, the state     *)
(* derivative, the fixed-step integrators and the simulation drivers.      *)
(*                                                                         *)
(* A field is a 2-D array, a sequence of rows, each a sequence of numbers. *)
(* The solver's floating-point numbers are modelled by exact rationals     *)
(* <<n, d>> in lowest terms: rounding is not modelled.  Times are          *)
(* integers.                                                               *)
(***************************************************************************)
EXTENDS Integers, Sequences, FiniteSets

VARIABLES
    \* ---- stimulate(t, X, stimuli): one call ------------------------------
    t,          \* the time the call is made at
    X,          \* the input field
    stimuli,    \* the list of stimuli: [field, protocol: [start, duration, period]]
    active,     \* the value of the local `active` in each loop iteration
    out,        \* the returned field (<<>> before the call returns)
    pcS,        \* "idle" | "input" | "done"
    \* ---- gradient(a, axis): one call --------------------------------------
    a,          \* the input array
    axis,       \* 0 or 1
    a_grad,     \* the returned array (<<>> before the call returns)
    pcG,        \* "idle" | "input" | "done"
    \* ---- _forward_euler / _forward_heun: one call (with t and stimuli) -----
    state,      \* the loop's carried State (v, w, u)
    state0,     \* the State the call was given
    grads,      \* the derivative step returned at the start of the last iteration
    i,          \* the fori_loop counter
    t_end,      \* the loop's upper bound
    params,     \* the cell parameters
    diffusivity,
    integrator, \* "EULER" | "HEUN"
    tanh_saturates, \* the build: whether jnp.tanh rounds to exactly -1 / 1
    sim_dt,     \* the integrators' dt
    pcF,        \* "idle" | "loop" | "done"
    \* ---- forward_dimensional / forward / sequence: one simulation run ------
    entry,      \* the entry point called
    window,     \* [start, stop, step] of the entry points that build checkpoints
    checkpoints,\* the checkpoint times
    fwd_f,      \* forward's f, the integrator: "EULER" | "HEUN" | "DORMANDPRINCE"
    shapes,     \* [state, diffusivity, stimuli]: the shapes of the arrays given
    fstate,     \* the driver's current state: [time, ok]
    states,     \* the returned states
    ck,         \* the driver loop's index (1-based)
    fi,         \* the counter of the integrator's fori_loop
    steps,      \* the number of integrator steps executed so far
    error,      \* "none" or the exception raised
    carry,      \* odeint's carry and outputs: [n, t, dt, last_t, j, ys]
    pcD         \* "idle" | "call" | "forward" | "loop" | "fori" | "odeint" |
                \* "scan" | "sequence" | "done" | "raised"

stimVars == <<t, X, stimuli, active, out, pcS>>
gradVars == <<a, axis, a_grad, pcG>>
simVars == <<state, state0, grads, i, t_end, params, diffusivity, integrator,
             tanh_saturates, sim_dt, pcF>>

fwdVars == <<entry, window, checkpoints, fwd_f, shapes, fstate, states, ck, fi, steps,
            error, carry, pcD>>
vars == <<t, X, stimuli, active, out, pcS, a, axis, a_grad, pcG,
          state, state0, grads, i, t_end, params, diffusivity, integrator,
          tanh_saturates, sim_dt, pcF,
          entry, window, checkpoints, fwd_f, shapes, fstate, states, ck, fi, steps,
          error, carry, pcD>>

-----------------------------------------------------------------------------
\* Arithmetic: exact rationals.

Abs(n) == IF n < 0 THEN -n ELSE n

RECURSIVE GCD(_, _)
GCD(m, n) == IF n = 0 THEN m ELSE GCD(n, m % n)

\* n/d in lowest terms with a positive denominator (d # 0).
Lowest(n, d, g) == <<n \div g, d \div g>>
Frac(n, d) == Lowest(IF d < 0 THEN -n ELSE n, Abs(d), GCD(Abs(n), Abs(d)))

R(n) == <<n, 1>>
Zero == R(0)
One == R(1)

\* Sums over the least common denominator and products with the common factors
\* cancelled first, so that the intermediate integers stay small.
AddOver(x, y, g) ==
    Frac(x[1] * (y[2] \div g) + y[1] * (x[2] \div g), (x[2] \div g) * y[2])
RAdd(x, y) == AddOver(x, y, GCD(x[2], y[2]))
RSub(x, y) == RAdd(x, <<-y[1], y[2]>>)
MulOver(x, y, g1, g2) ==
    IF x[1] = 0 \/ y[1] = 0 THEN <<0, 1>>
    ELSE <<(x[1] \div g1) * (y[1] \div g2), (x[2] \div g2) * (y[2] \div g1)>>
RMul(x, y) == MulOver(x, y, GCD(Abs(x[1]), y[2]), GCD(Abs(y[1]), x[2]))
RDiv(x, y) == RMul(x, Frac(y[2], y[1]))
RNeg(x) == <<-x[1], x[2]>>
RGeq(x, y) == x[1] * y[2] >= y[1] * x[2]

B2I(b) == IF b THEN 1 ELSE 0

-----------------------------------------------------------------------------
\* Arrays.

\* An array built by a comprehension, as the stored array it denotes (a sequence
\* of sequences): Vec for one row, Mat for a 2-D array.
Vec(f) == f \o <<>>
Mat(F) == [r \in 1..Len(F) |-> F[r] \o <<>>] \o <<>>

Shape(A) == <<Len(A), IF Len(A) = 0 THEN 0 ELSE Len(A[1])>>

Full(shape, x) == Mat([ix \in 1..shape[1] |-> [j \in 1..shape[2] |-> x]])

Transpose(A) == Mat([j \in 1..Len(A[1]) |-> [ix \in 1..Len(A) |-> A[ix][j]]])

-----------------------------------------------------------------------------
\* Bounds of the stimulus model.
MaxT == 12            \* times 0..MaxT, and the same window one long period later
MaxStimuli == 2       \* longest stimuli list
MaxDuration == 2      \* durations 1..MaxDuration
NCells == 2           \* cells of the field handed to stimulate

ShortPeriod == 2 * 2
LongPeriod == 10 * 10
FirstStart == 2 * 5

Times == (0..MaxT) \cup {LongPeriod + k : k \in 0..MaxT}

Protocols ==
    {[start |-> FirstStart, duration |-> d, period |-> p] :
        d \in 1..MaxDuration, p \in {ShortPeriod, LongPeriod}}

\* Stimulus fields (one row of NCells cells): zero everywhere, nonzero on the
\* first cell only, nonzero everywhere (with another magnitude).
ZeroField == Full(<<1, NCells>>, Zero)
StimFields ==
    {ZeroField,
     <<Vec([j \in 1..NCells |-> IF j = 1 THEN One ELSE Zero])>>,
     Full(<<1, NCells>>, R(2))}

StimulusSet == {[field |-> f, protocol |-> p] : f \in StimFields, p \in Protocols}

\* The input field: zero at some cells and nonzero at others, never a value a
\* stimulus carries.
InputField == <<Vec([j \in 1..NCells |-> IF j = 1 THEN Zero ELSE R(7)])>>

-----------------------------------------------------------------------------
\* stimulate (solve.py 257-271)

\* Mutant: the start test made strict.
IsActiveStrict(tt, protocol) ==
    /\ tt > protocol.start
    /\ ((protocol.start - tt + 1) % protocol.period) < protocol.duration

\* Mutant: the offset of the periodic test dropped.
IsActiveNoOffset(tt, protocol) ==
    /\ tt >= protocol.start
    /\ ((protocol.start - tt) % protocol.period) < protocol.duration

\* jnp.greater_equal(t, start) & (jnp.mod(start - t + 1, period) < duration);
\* jnp.mod takes the sign of the divisor, as % does for a positive period.
IsActive(tt, protocol) ==
    /\ tt >= protocol.start
    /\ ((protocol.start - tt + 1) % protocol.period) < protocol.duration

\* Mutant: the stimulus field written wherever the stimulus is active, zero
\* cells included.
BuildStimulatedAll(act, field, stimulated) ==
    Mat([ix \in 1..Len(stimulated) |-> [j \in 1..Len(stimulated[ix]) |->
        IF act THEN field[ix][j] ELSE stimulated[ix][j]]])

\* One loop iteration's jnp.where(stimulus.field * active, stimulus.field, stimulated).
BuildStimulated(act, field, stimulated) ==
    Mat([ix \in 1..Len(stimulated) |-> [j \in 1..Len(stimulated[ix]) |->
        IF RMul(field[ix][j], R(B2I(act))) # Zero
        THEN field[ix][j] ELSE stimulated[ix][j]]])

\* Mutant: the loop keeps the first stimulus that wrote a cell.
RECURSIVE StimulatedFirstWins(_, _, _)
StimulatedFirstWins(tt, stims, stimulated) ==
    IF stims = <<>> THEN stimulated
    ELSE StimulatedFirstWins(tt, Tail(stims),
             Mat([ix \in 1..Len(stimulated) |-> [j \in 1..Len(stimulated[ix]) |->
                 IF stimulated[ix][j] # Zero THEN stimulated[ix][j]
                 ELSE BuildStimulated(IsActive(tt, Head(stims).protocol),
                                      Head(stims).field, stimulated)[ix][j]]]))

\* The for loop over the stimuli, in list order, from `stimulated`.
RECURSIVE StimulatedLoop(_, _, _)
StimulatedLoop(tt, stims, stimulated) ==
    IF stims = <<>> THEN stimulated
    ELSE StimulatedLoop(tt, Tail(stims),
             BuildStimulated(IsActive(tt, Head(stims).protocol),
                             Head(stims).field, stimulated))

\* Mutant: the stimulus added to X where it should replace it.
WhereNonzeroAdded(stimulated, XX) ==
    Mat([ix \in 1..Len(XX) |-> [j \in 1..Len(XX[ix]) |->
        RAdd(stimulated[ix][j], XX[ix][j])]])

\* stimulated = zeros_like(X); the loop; jnp.where(stimulated != 0, stimulated, X).
WhereNonzero(stimulated, XX) ==
    Mat([ix \in 1..Len(XX) |-> [j \in 1..Len(XX[ix]) |->
        IF stimulated[ix][j] # Zero THEN stimulated[ix][j] ELSE XX[ix][j]]])
stimulate(tt, XX, stims) ==
    WhereNonzero(StimulatedLoop(tt, stims, Full(Shape(XX), Zero)), XX)

IdleStim ==
    /\ t = 0
    /\ X = <<>>
    /\ stimuli = <<>>
    /\ active = <<>>
    /\ out = <<>>
    /\ pcS = "idle"

IdleGrad ==
    /\ a = <<>>
    /\ axis = 0
    /\ a_grad = <<>>
    /\ pcG = "idle"

IdleSim ==
    /\ state = <<>>
    /\ state0 = <<>>
    /\ grads = <<>>
    /\ i = 0
    /\ t_end = 0
    /\ params = <<>>
    /\ diffusivity = <<>>
    /\ integrator = "EULER"
    /\ tanh_saturates = FALSE
    /\ sim_dt = Zero
    /\ pcF = "idle"

IdleForward ==
    /\ entry = "none"
    /\ window = <<>>
    /\ checkpoints = <<>>
    /\ fwd_f = "none"
    /\ shapes = <<>>
    /\ fstate = <<>>
    /\ states = <<>>
    /\ ck = 0
    /\ fi = 0
    /\ steps = 0
    /\ error = "none"
    /\ carry = <<>>
    /\ pcD = "idle"

InitStim ==
    /\ t \in Times
    /\ X = InputField
    /\ stimuli = <<>>
    /\ active = <<>>
    /\ out = <<>>
    /\ pcS = "input"
    /\ IdleGrad
    /\ IdleSim
    /\ IdleForward

\* The caller builds the stimuli list, one stimulus at a time.
AddStimulus ==
    /\ pcS = "input"
    /\ Len(stimuli) < MaxStimuli
    /\ \E s \in StimulusSet : stimuli' = Append(stimuli, s)
    /\ UNCHANGED <<t, X, active, out, pcS>>
    /\ UNCHANGED <<gradVars, simVars, fwdVars>>

\* The call stimulate(t, X, stimuli).
CallStimulate ==
    /\ pcS = "input"
    /\ active' = [ix \in 1..Len(stimuli) |-> IsActive(t, stimuli[ix].protocol)]
    /\ out' = stimulate(t, X, stimuli)
    /\ pcS' = "done"
    /\ UNCHANGED <<t, X, stimuli>>
    /\ UNCHANGED <<gradVars, simVars, fwdVars>>

NextStim == AddStimulus \/ CallStimulate

SpecStim == InitStim /\ [][NextStim]_vars

-----------------------------------------------------------------------------
\* gradient (solve.py 225-254)

MinAxisLen == 5       \* the shortest axis the slices sliced(3, 5), sliced(-5, -3) fit
MaxAxisLen == 6       \* bound: longest axis
MaxOrth == 2          \* bound: longest other axis

\* A negative index counts from the end (jax.lax.slice_in_dim).
Canon(idx, n) == IF idx < 0 THEN idx + n ELSE idx

\* sliced(start, limit), sliced(start, None), sliced(None, limit) on one line
\* along the axis: the elements start .. limit - 1, counted from 0.
Sliced(line, start, limit) ==
    SubSeq(line, Canon(start, Len(line)) + 1, Canon(limit, Len(line)))
SlicedFrom(line, start) == SubSeq(line, Canon(start, Len(line)) + 1, Len(line))
SlicedTo(line, limit) == SubSeq(line, 1, Canon(limit, Len(line)))

Scale(c, line) == Vec([ix \in 1..Len(line) |-> RMul(c, line[ix])])
LineAdd(l1, l2) == Vec([ix \in 1..Len(l1) |-> RAdd(l1[ix], l2[ix])])
LineSub(l1, l2) == Vec([ix \in 1..Len(l1) |-> RSub(l1[ix], l2[ix])])

\* Mutant: the left edge with the third coefficient 2/3 in place of 3/2.
LeftEdgeCoefficientSlip(line) ==
    LineAdd(LineSub(LineAdd(Scale(Frac(-11, 6), Sliced(line, 0, 2)),
                            Scale(R(3), Sliced(line, 1, 3))),
                    Scale(Frac(2, 3), Sliced(line, 2, 4))),
            Scale(Frac(1, 3), Sliced(line, 3, 5)))

\* 3th order edge (left)
LeftEdge(line) ==
    LineAdd(LineSub(LineAdd(Scale(Frac(-11, 6), Sliced(line, 0, 2)),
                            Scale(R(3), Sliced(line, 1, 3))),
                    Scale(Frac(3, 2), Sliced(line, 2, 4))),
            Scale(Frac(1, 3), Sliced(line, 3, 5)))

\* Mutant: the inner stencil with its third slice one cell to the left.
InnerSliceShift(line) ==
    LineSub(LineAdd(LineSub(Scale(Frac(1, 12), SlicedTo(line, -4)),
                            Scale(Frac(2, 3), Sliced(line, 1, -3))),
                    Scale(Frac(2, 3), Sliced(line, 2, -2))),
            Scale(Frac(1, 12), SlicedFrom(line, 4)))

\* 4th order inner
Inner(line) ==
    LineSub(LineAdd(LineSub(Scale(Frac(1, 12), SlicedTo(line, -4)),
                            Scale(Frac(2, 3), Sliced(line, 1, -3))),
                    Scale(Frac(2, 3), Sliced(line, 3, -1))),
            Scale(Frac(1, 12), SlicedFrom(line, 4)))

\* Mutant: the right edge with the last coefficient's sign slipped.
RightEdgeSignSlip(line) ==
    LineSub(LineSub(LineAdd(Scale(Frac(-1, 3), Sliced(line, -5, -3)),
                            Scale(Frac(3, 2), Sliced(line, -4, -2))),
                    Scale(R(3), Sliced(line, -3, -1))),
            Scale(Frac(11, 6), SlicedFrom(line, -2)))

\* 3th order edge (right)
RightEdge(line) ==
    LineAdd(LineSub(LineAdd(Scale(Frac(-1, 3), Sliced(line, -5, -3)),
                            Scale(Frac(3, 2), Sliced(line, -4, -2))),
                    Scale(R(3), Sliced(line, -3, -1))),
            Scale(Frac(11, 6), SlicedFrom(line, -2)))

\* jnp.concatenate of the three blocks along the axis, for one line.
GradientLine(line) == LeftEdge(line) \o Inner(line) \o RightEdge(line)

\* gradient(a, axis): axis 1 runs along the rows, axis 0 across them.
GradientRows(A) == Mat([ix \in 1..Len(A) |-> GradientLine(A[ix])])
gradient(A, ax) ==
    IF ax = 1 THEN GradientRows(A) ELSE Transpose(GradientRows(Transpose(A)))

\* Input values and lines of the gradient model.
GradValues == {Zero, R(3), Frac(-1, 2)}
GradLines == UNION {[1..n -> GradValues] : n \in MinAxisLen..MaxAxisLen}

\* Linear ramps s * i + c along the axis, i counted from 0.
Ramp(s, c, n) == Vec([ix \in 1..n |-> RAdd(RMul(s, R(ix - 1)), c)])
RampLines ==
    {Ramp(s, c, n) : s \in {One, R(-2), Frac(1, 3)}, c \in {Zero, Frac(1, 2)},
                     n \in MinAxisLen..MaxAxisLen}

InitGrad ==
    /\ axis \in {0, 1}
    /\ \E line \in GradLines \cup RampLines, m \in 1..MaxOrth :
          a = IF axis = 1 THEN Mat([ix \in 1..m |-> line])
              ELSE Transpose(Mat([ix \in 1..m |-> line]))
    /\ a_grad = <<>>
    /\ pcG = "input"
    /\ IdleStim
    /\ IdleSim
    /\ IdleForward

\* The call gradient(a, axis).
CallGradient ==
    /\ pcG = "input"
    /\ a_grad' = gradient(a, axis)
    /\ pcG' = "done"
    /\ UNCHANGED <<a, axis>>
    /\ UNCHANGED <<stimVars, simVars, fwdVars>>

NextGrad == CallGradient

SpecGrad == InitGrad /\ [][NextGrad]_vars

-----------------------------------------------------------------------------
\* init, step, step_euler, step_heun, _forward_euler, _forward_heun
\* (solve.py 18-111)

GridSize == 3         \* bound: the grid is GridSize x (GridSize + 1)
MaxSteps == 2         \* bound: longest window t .. t_end

SimShape == <<GridSize, GridSize + 1>>

ArrAdd(A, B) ==
    Mat([r \in 1..Len(A) |-> [c \in 1..Len(A[r]) |-> RAdd(A[r][c], B[r][c])]])
ArrMul(A, B) ==
    Mat([r \in 1..Len(A) |-> [c \in 1..Len(A[r]) |-> RMul(A[r][c], B[r][c])]])
ArrDivBy(A, x) ==
    Mat([r \in 1..Len(A) |-> [c \in 1..Len(A[r]) |-> RDiv(A[r][c], x)]])

\* init(shape)
init(shape) == [v |-> Full(shape, One), w |-> Full(shape, One), u |-> Full(shape, Zero)]

\* Mutant: padding with the constant 1 in place of the edge value.
PadOnes(A) ==
    <<Vec([c \in 1..(Len(A[1]) + 2) |-> One])>>
    \o Mat([r \in 1..Len(A) |-> <<One>> \o A[r] \o <<One>>])
    \o <<Vec([c \in 1..(Len(A[1]) + 2) |-> One])>>

\* jnp.pad(A, 1, mode="edge")
PadRows(rows) == <<rows[1]>> \o rows \o <<rows[Len(rows)]>>
PadEdge(A) ==
    PadRows(Mat([r \in 1..Len(A) |-> <<A[r][1]>> \o A[r] \o <<A[r][Len(A[r])]>>]))

\* Mutant: the crop applied to the rows only, A[1:-1].
CropRowsOnly(A) ==
    Mat([r \in 1..(Len(A) - 2) |-> [c \in 1..Len(A[1]) |-> A[r + 1][c]]])

\* A[1:-1, 1:-1]
Crop(A) ==
    Mat([r \in 1..(Len(A) - 2) |-> [c \in 1..(Len(A[1]) - 2) |-> A[r + 1][c + 1]]])

\* The argument from which a saturating build's tanh returns exactly 1 (or -1).
SatArg == R(2)

\* tanh of a nonnegative argument, by linear interpolation in the table
\* (0, 0), (1, 3/4), (2, 15/16), constant beyond.
TanhTable(x) ==
    IF RGeq(One, x) THEN RMul(Frac(3, 4), x)
    ELSE IF RGeq(R(2), x) THEN RAdd(Frac(3, 4), RMul(Frac(3, 16), RSub(x, One)))
    ELSE Frac(15, 16)

\* jnp.tanh.  tanh is not rational: the table stands for it, which like tanh
\* is odd, nondecreasing and strictly between -1 and 1; a finite-precision
\* tanh may round to exactly -1 or 1 for large arguments.
tanh(x, saturates) ==
    IF saturates /\ RGeq(x, SatArg) THEN One
    ELSE IF saturates /\ RGeq(RNeg(SatArg), x) THEN RNeg(One)
    ELSE IF RGeq(x, Zero) THEN TanhTable(x)
    ELSE RNeg(TanhTable(RNeg(x)))

\* The reaction term of one (padded) cell: p, q, tau_v_minus and the currents.
\* Mutant: the threshold V_c compared strictly.
GatePStrict(u, pr) == R(B2I(~RGeq(pr.V_c, u)))

GateP(u, pr) == R(B2I(RGeq(u, pr.V_c)))
GateQ(u, pr) == R(B2I(RGeq(u, pr.V_v)))

TauVMinus(u, pr) ==
    RAdd(RMul(RSub(One, GateQ(u, pr)), pr.tau_v1_minus),
         RMul(GateQ(u, pr), pr.tau_v2_minus))

JFi(v, u, pr) ==
    RDiv(RMul(RMul(RMul(RNeg(v), GateP(u, pr)), RSub(u, pr.V_c)), RSub(One, u)),
         pr.tau_d)

JSo(u, pr) ==
    RAdd(RDiv(RMul(u, RSub(One, GateP(u, pr))), pr.tau_0),
         RDiv(GateP(u, pr), pr.tau_r))

\* Mutant: the slow inward current switched off below V_c.
JSiGated(w, u, pr, saturates) ==
    RNeg(RDiv(RMul(RMul(w, GateP(u, pr)),
                   RAdd(One, tanh(RMul(pr.k, RSub(u, pr.V_csi)), saturates))),
              RMul(R(2), pr.tau_si)))

JSi(w, u, pr, saturates) ==
    RNeg(RDiv(RMul(w, RAdd(One, tanh(RMul(pr.k, RSub(u, pr.V_csi)), saturates))),
              RMul(R(2), pr.tau_si)))

JIon(v, w, u, pr, saturates) ==
    RDiv(RNeg(RAdd(RAdd(JFi(v, u, pr), JSo(u, pr)), JSi(w, u, pr, saturates))),
         pr.Cm)

DV(v, u, pr) ==
    RSub(RDiv(RMul(RSub(One, GateP(u, pr)), RSub(One, v)), TauVMinus(u, pr)),
         RDiv(RMul(GateP(u, pr), v), pr.tau_v_plus))

DW(w, u, pr) ==
    RSub(RDiv(RMul(RSub(One, GateP(u, pr)), RSub(One, w)), pr.tau_w_minus),
         RDiv(RMul(GateP(u, pr), w), pr.tau_w_plus))

\* The diffusion term on the padded grid, from the first derivatives.
DelUFrom(u_x, u_y, D_x, D_y, D, dx) ==
    ArrAdd(ArrAdd(ArrMul(D, ArrAdd(ArrDivBy(gradient(u_x, 0), dx),
                                   ArrDivBy(gradient(u_y, 1), dx))),
                  ArrMul(D_x, u_x)),
           ArrMul(D_y, u_y))

DelU(u, D, dx) ==
    DelUFrom(ArrDivBy(gradient(u, 0), dx), ArrDivBy(gradient(u, 1), dx),
             ArrDivBy(gradient(D, 0), dx), ArrDivBy(gradient(D, 1), dx), D, dx)

\* The stimuli with their fields padded.
PaddedStimuli(stims) ==
    Vec([n \in 1..Len(stims) |->
        [field |-> PadEdge(stims[n].field), protocol |-> stims[n].protocol]])

\* The derivative on the padded arrays, cropped.
StepPadded(v, w, u, tt, pr, D, stims, dx, saturates) ==
    [v |-> Crop(Mat([r \in 1..Len(u) |-> [c \in 1..Len(u[r]) |->
                    DV(v[r][c], u[r][c], pr)]])),
     w |-> Crop(Mat([r \in 1..Len(u) |-> [c \in 1..Len(u[r]) |->
                    DW(w[r][c], u[r][c], pr)]])),
     u |-> Crop(ArrAdd(DelU(u, D, dx),
                       stimulate(tt,
                                 Mat([r \in 1..Len(u) |-> [c \in 1..Len(u[r]) |->
                                     JIon(v[r][c], w[r][c], u[r][c], pr, saturates)]]),
                                 stims)))]

\* step(state, t, params, diffusivity, stimuli, dx): the derivative.
step(st, tt, pr, D, stims, dx, saturates) ==
    StepPadded(PadEdge(st.v), PadEdge(st.w), PadEdge(st.u), tt, pr, PadEdge(D),
               PaddedStimuli(stims), dx, saturates)

\* jax.tree_multimap(lambda v, dv: jnp.add(v, dv * h), y, dy)
TreeAxpy(y, dy, h) ==
    [f \in {"v", "w", "u"} |->
        Mat([r \in 1..Len(y[f]) |-> [c \in 1..Len(y[f][r]) |->
            RAdd(y[f][r][c], RMul(dy[f][r][c], h))]])]

\* jax.tree_multimap(lambda x, y: jnp.add(x, y), d_state, d_new_state)
TreeAdd(x, y) == [f \in {"v", "w", "u"} |-> ArrAdd(x[f], y[f])]

\* Mutant: the derivative added without the factor dt.
StepEulerNoDt(st, tt, pr, D, stims, dt, dx, saturates) ==
    TreeAdd(st, step(st, tt, pr, D, stims, dx, saturates))

step_euler(st, tt, pr, D, stims, dt, dx, saturates) ==
    TreeAxpy(st, step(st, tt, pr, D, stims, dx, saturates), dt)

\* Mutant: the final update applied to the predicted state.
HeunCorrectorOnPredicted(st, d_state, tt, pr, D, stims, dt, dx, saturates) ==
    TreeAxpy(TreeAxpy(st, d_state, dt),
             TreeAdd(d_state,
                     step(TreeAxpy(st, d_state, dt), tt, pr, D, stims, dx, saturates)),
             RMul(dt, Frac(1, 2)))

HeunCorrector(st, d_state, tt, pr, D, stims, dt, dx, saturates) ==
    TreeAxpy(st,
             TreeAdd(d_state,
                     step(TreeAxpy(st, d_state, dt), tt, pr, D, stims, dx, saturates)),
             RMul(dt, Frac(1, 2)))

step_heun(st, tt, pr, D, stims, dt, dx, saturates) ==
    HeunCorrector(st, step(st, tt, pr, D, stims, dx, saturates), tt, pr, D, stims,
                  dt, dx, saturates)

\* Inputs of the simulation model.
SimDt == Frac(1, 2)
SimDts == {SimDt, One}
SimDx == Frac(1, 2)

ParamSets ==
    {[V_c |-> Frac(1, 4), V_v |-> Frac(1, 8), V_csi |-> Frac(3, 4), tau_d |-> One,
      tau_0 |-> One, tau_r |-> R(2), tau_si |-> One, tau_v1_minus |-> R(2),
      tau_v2_minus |-> R(4), tau_v_plus |-> R(2), tau_w_minus |-> R(2),
      tau_w_plus |-> R(4), k |-> R(4), Cm |-> One],
     [V_c |-> Frac(1, 2), V_v |-> Frac(1, 4), V_csi |-> One, tau_d |-> R(2),
      tau_0 |-> R(2), tau_r |-> One, tau_si |-> R(2), tau_v1_minus |-> One,
      tau_v2_minus |-> R(2), tau_v_plus |-> One, tau_w_minus |-> R(4),
      tau_w_plus |-> R(2), k |-> R(4), Cm |-> R(2)]}

\* Initial states: at rest, uniform and excited, at rest but for one excited
\* cell, and gates closed with one cell at a threshold (V_c of the first
\* parameter set, V_v of the second).
OneCell(x) == Mat([r \in 1..SimShape[1] |-> [c \in 1..SimShape[2] |->
                  IF r = 1 /\ c = 1 THEN x ELSE Zero]])
SimStates ==
    {init(SimShape),
     [v |-> Full(SimShape, Frac(1, 2)), w |-> Full(SimShape, One),
      u |-> Full(SimShape, Frac(1, 2))],
     [v |-> Full(SimShape, One), w |-> Full(SimShape, One), u |-> OneCell(Frac(1, 2))],
     [v |-> Full(SimShape, Zero), w |-> Full(SimShape, Zero),
      u |-> OneCell(Frac(1, 4))]}

IsUniformState(st) ==
    \A f \in {"v", "w", "u"} : st[f] = Full(Shape(st[f]), st[f][1][1])

SimDiffusivities == {Full(SimShape, Zero), Full(SimShape, Frac(1, 2))}

\* Stimuli lists: none, a zero field, a nonzero field that is not active
\* during the window, a nonzero field that is.
EarlyProtocol == [start |-> 0, duration |-> 2, period |-> ShortPeriod]
LateProtocol == [start |-> FirstStart, duration |-> 2, period |-> LongPeriod]
SimStimuli ==
    {<<>>,
     <<[field |-> Full(SimShape, Zero), protocol |-> EarlyProtocol]>>,
     <<[field |-> OneCell(One), protocol |-> LateProtocol]>>,
     <<[field |-> OneCell(One), protocol |-> EarlyProtocol]>>}

InitSim ==
    /\ t \in 0..1
    /\ i = t
    /\ sim_dt \in SimDts
    /\ state0 \in SimStates
    /\ state = state0
    /\ grads = <<>>
    /\ params \in ParamSets
    /\ diffusivity \in SimDiffusivities
    /\ stimuli \in SimStimuli
    \* (only a run that stays below the threshold V_c is longer than one step:
    \* the exact rationals of the others grow fast)
    /\ t_end \in t..(IF /\ state0 = init(SimShape)
                        /\ diffusivity = Full(SimShape, Zero)
                        /\ stimuli # <<[field |-> OneCell(One), protocol |-> EarlyProtocol]>>
                     THEN t + MaxSteps ELSE t + 1)
    /\ integrator \in {"EULER", "HEUN"}
    /\ tanh_saturates \in BOOLEAN
    /\ pcF = "loop"
    /\ X = <<>>
    /\ active = <<>>
    /\ out = <<>>
    /\ pcS = "idle"
    /\ IdleGrad
    /\ IdleForward

\* Mutant: the loop body run once more, at i = t_end.
EulerIterationInclusive ==
    /\ pcF = "loop"
    /\ integrator = "EULER"
    /\ i <= t_end
    /\ grads' = step(state, i, params, diffusivity, stimuli, SimDx, tanh_saturates)
    /\ state' = step_euler(state, i, params, diffusivity, stimuli, sim_dt, SimDx,
                           tanh_saturates)
    /\ i' = i + 1
    /\ UNCHANGED <<state0, t_end, params, diffusivity, integrator, tanh_saturates,
                   sim_dt, pcF>>
    /\ UNCHANGED <<stimVars, gradVars, fwdVars>>

\* One iteration of _forward_euler's fori_loop: step_euler at the counter i.
EulerIteration ==
    /\ pcF = "loop"
    /\ integrator = "EULER"
    /\ i < t_end
    /\ grads' = step(state, i, params, diffusivity, stimuli, SimDx, tanh_saturates)
    /\ state' = step_euler(state, i, params, diffusivity, stimuli, sim_dt, SimDx,
                           tanh_saturates)
    /\ i' = i + 1
    /\ UNCHANGED <<state0, t_end, params, diffusivity, integrator, tanh_saturates,
                   sim_dt, pcF>>
    /\ UNCHANGED <<stimVars, gradVars, fwdVars>>

\* One iteration of _forward_heun's fori_loop: step_heun at the counter i.
HeunIteration ==
    /\ pcF = "loop"
    /\ integrator = "HEUN"
    /\ i < t_end
    /\ grads' = step(state, i, params, diffusivity, stimuli, SimDx, tanh_saturates)
    /\ state' = step_heun(state, i, params, diffusivity, stimuli, sim_dt, SimDx,
                          tanh_saturates)
    /\ i' = i + 1
    /\ UNCHANGED <<state0, t_end, params, diffusivity, integrator, tanh_saturates,
                   sim_dt, pcF>>
    /\ UNCHANGED <<stimVars, gradVars, fwdVars>>

\* The loop ends when the counter reaches t_end; the state is returned.
LoopExit ==
    /\ pcF = "loop"
    /\ i >= t_end
    /\ pcF' = "done"
    /\ UNCHANGED <<state, state0, grads, i, t_end, params, diffusivity, integrator,
                   tanh_saturates, sim_dt>>
    /\ UNCHANGED <<stimVars, gradVars, fwdVars>>

NextSim == EulerIteration \/ HeunIteration \/ LoopExit

SpecSim == InitSim /\ [][NextSim]_vars

-----------------------------------------------------------------------------
\* The simulation drivers: forward_dimensional, forward and sequence.
\*
\* The drivers do no arithmetic of their own, so a State is abstracted to
\* [time, ok]: the time it stands at, and whether it is the integrator's
\* converged result for that time.  Arrays are abstracted to their shapes.

MaxCheckpoint == 3      \* checkpoint times are in 0..MaxCheckpoint
MaxCheckpoints == 3     \* the longest checkpoint list
MaxDt == 2              \* the adaptive step size is in 0..MaxDt

SetMaxOf(S) == CHOOSE x \in S : \A y \in S : y <= x

\* Mutant: the stop included in the range.
ArangeInclusive(start, stop, stepc) ==
    LET n == IF stop >= start THEN (stop - start + stepc) \div stepc ELSE 0
    IN  Vec([ix \in 1..n |-> start + (ix - 1) * stepc])

\* jnp.arange(start, stop, step) for integers, step > 0.
Arange(start, stop, stepc) ==
    LET n == IF stop > start THEN (stop - start + stepc - 1) \div stepc ELSE 0
    IN  Vec([ix \in 1..n |-> start + (ix - 1) * stepc])

\* Ascending checkpoint lists a caller of forward may supply.
AscendingLists ==
    {s \in UNION {[1..n -> 0..MaxCheckpoint] : n \in 1..MaxCheckpoints} :
        \A ix \in 1..(Len(s) - 1) : s[ix] < s[ix + 1]}

\* Windows of forward_dimensional (start = 0) and sequence.
Windows ==
    {w \in [start : 0..1, stop : 1..MaxCheckpoint, stepc : 1..2] : w.stop > w.start}

\* Shapes of the arrays a caller may supply: the grid's, a larger grid's, and
\* a 1-D array as long as a row of the grid.
ArrayShapes == {SimShape, <<GridSize + 1, GridSize + 1>>, <<GridSize + 1>>}
StimuliShapes == {<<>>} \cup {<<s>> : s \in ArrayShapes}

\* jnp.pad(x, 1, mode="edge") adds 2 to every dimension.
Padded(s) == Vec([ix \in 1..Len(s) |-> s[ix] + 2])

\* Broadcasting of two shapes: aligned at the last dimension, dimensions
\* must agree or be 1.
AlignTo(s, n) ==
    Vec([ix \in 1..n |-> IF ix <= n - Len(s) THEN 1 ELSE s[ix - (n - Len(s))]])

Broadcastable(s1, s2) ==
    LET n == SetMaxOf({Len(s1), Len(s2)})
    IN  \A ix \in 1..n : \/ AlignTo(s1, n)[ix] = AlignTo(s2, n)[ix]
                         \/ AlignTo(s1, n)[ix] = 1
                         \/ AlignTo(s2, n)[ix] = 1

BroadcastShape(s1, s2) ==
    LET n == SetMaxOf({Len(s1), Len(s2)})
    IN  Vec([ix \in 1..n |-> IF AlignTo(s1, n)[ix] = 1 THEN AlignTo(s2, n)[ix]
                                                     ELSE AlignTo(s1, n)[ix]])

\* Whether step accepts arrays of these shapes: gradient along both axes
\* needs 2-D arrays, and jnp.where and the products broadcast the padded
\* stimulus fields and the padded diffusivity against the padded state; the
\* derivative must keep the state's shape.  step raises an error otherwise.
StepAccepts(sh) ==
    /\ Len(sh.state) = 2
    /\ Len(sh.diffusivity) = 2
    /\ Broadcastable(Padded(sh.diffusivity), Padded(sh.state))
    /\ BroadcastShape(Padded(sh.diffusivity), Padded(sh.state)) = Padded(sh.state)
    /\ \A n \in 1..Len(sh.stimuli) :
          /\ Broadcastable(Padded(sh.stimuli[n]), Padded(sh.state))
          /\ BroadcastShape(Padded(sh.stimuli[n]), Padded(sh.state)) = Padded(sh.state)

\* The State at time tt that the caller asked for.
StateAt(tt) == [time |-> tt, ok |-> TRUE]

InitForward ==
    /\ entry \in {"forward_dimensional", "forward", "sequence"}
    /\ window \in Windows
    /\ checkpoints \in AscendingLists
    /\ fwd_f \in {"EULER", "HEUN", "DORMANDPRINCE"}
    /\ shapes \in [state : {SimShape}, diffusivity : ArrayShapes, stimuli : StimuliShapes]
    \* forward_dimensional starts at 0, sequence integrates with _forward, and
    \* both build their own checkpoints
    /\ entry = "forward" => window = [start |-> 0, stop |-> 1, stepc |-> 1]
    /\ entry # "forward" => checkpoints = <<0>>
    /\ entry = "forward_dimensional" => window.start = 0
    /\ entry = "sequence" => fwd_f = "EULER"
    /\ fstate = <<>>
    /\ states = <<>>
    /\ ck = 0
    /\ fi = 0
    /\ steps = 0
    /\ error = "none"
    /\ carry = <<>>
    /\ pcD = "call"
    /\ IdleStim
    /\ IdleGrad
    /\ IdleSim

\* forward_dimensional: the two assertions, init(shape), the checkpoints, and
\* the call of forward.
CallForwardDimensional ==
    /\ pcD = "call"
    /\ entry = "forward_dimensional"
    /\ IF /\ shapes.state = shapes.diffusivity
          /\ \A n \in 1..Len(shapes.stimuli) : shapes.stimuli[n] = shapes.state
       THEN /\ checkpoints' = Arange(0, window.stop, window.stepc)
            /\ fstate' = StateAt(0)
            /\ pcD' = "forward"
            /\ error' = error
       ELSE /\ error' = "AssertionError"
            /\ pcD' = "raised"
            /\ UNCHANGED <<checkpoints, fstate>>
    /\ UNCHANGED <<entry, window, fwd_f, shapes, states, ck, fi, steps, carry>>
    /\ UNCHANGED <<stimVars, gradVars, simVars>>

\* forward called directly: the caller's state stands at the first checkpoint.
CallForward ==
    /\ pcD = "call"
    /\ entry = "forward"
    /\ fstate' = StateAt(checkpoints[1])
    /\ pcD' = "forward"
    /\ UNCHANGED <<entry, window, checkpoints, fwd_f, shapes, states, ck, fi, steps,
                   error, carry>>
    /\ UNCHANGED <<stimVars, gradVars, simVars>>

\* forward: the dispatch on the integrator.
ForwardDispatch ==
    /\ pcD = "forward"
    /\ IF fwd_f = "DORMANDPRINCE"
       THEN /\ pcD' = "odeint"
            /\ UNCHANGED <<states, ck>>
       ELSE /\ states' = <<>>
            /\ ck' = 1
            /\ pcD' = "loop"
    /\ UNCHANGED <<entry, window, checkpoints, fwd_f, shapes, fstate, fi, steps,
                   error, carry>>
    /\ UNCHANGED <<stimVars, gradVars, simVars>>

\* Mutant: every window integrated from the first checkpoint.
LoopCallFromFirst ==
    /\ pcD = "loop"
    /\ ck <= Len(checkpoints) - 1
    /\ IF StepAccepts(shapes)
       THEN /\ fi' = checkpoints[1]
            /\ pcD' = "fori"
            /\ error' = error
       ELSE /\ error' = "TypeError"
            /\ pcD' = "raised"
            /\ fi' = fi
    /\ UNCHANGED <<entry, window, checkpoints, fwd_f, shapes, fstate, states, ck,
                   steps, carry>>
    /\ UNCHANGED <<stimVars, gradVars, simVars>>

\* forward's loop: f(state, checkpoints[i], checkpoints[i + 1], ...) is called;
\* step raises when it is traced with arrays it does not accept.
LoopCall ==
    /\ pcD = "loop"
    /\ ck <= Len(checkpoints) - 1
    /\ IF StepAccepts(shapes)
       THEN /\ fi' = checkpoints[ck]
            /\ pcD' = "fori"
            /\ error' = error
       ELSE /\ error' = "TypeError"
            /\ pcD' = "raised"
            /\ fi' = fi
    /\ UNCHANGED <<entry, window, checkpoints, fwd_f, shapes, fstate, states, ck,
                   steps, carry>>
    /\ UNCHANGED <<stimVars, gradVars, simVars>>

\* One iteration of the integrator's fori_loop(t, t_end, ...): a step taken at
\* the counter.
ForiIteration ==
    /\ pcD = "fori"
    /\ fi < checkpoints[ck + 1]
    /\ fstate' = [time |-> fstate.time + 1, ok |-> fstate.ok /\ fi = fstate.time]
    /\ fi' = fi + 1
    /\ steps' = steps + 1
    /\ UNCHANGED <<entry, window, checkpoints, fwd_f, shapes, states, ck, error,
                   carry, pcD>>
    /\ UNCHANGED <<stimVars, gradVars, simVars>>

\* The integrator returns; forward appends the state.
ForiReturn ==
    /\ pcD = "fori"
    /\ fi >= checkpoints[ck + 1]
    /\ states' = Append(states, fstate)
    /\ ck' = ck + 1
    /\ pcD' = "loop"
    /\ UNCHANGED <<entry, window, checkpoints, fwd_f, shapes, fstate, fi, steps,
                   error, carry>>
    /\ UNCHANGED <<stimVars, gradVars, simVars>>

\* forward returns the list of states.
LoopReturn ==
    /\ pcD = "loop"
    /\ ck > Len(checkpoints) - 1
    /\ pcD' = "done"
    /\ UNCHANGED <<entry, window, checkpoints, fwd_f, shapes, fstate, states, ck, fi,
                   steps, error, carry>>
    /\ UNCHANGED <<stimVars, gradVars, simVars>>

\* sequence: the assertion on the stimuli, the checkpoints, init(shape) with
\* the diffusivity's shape.
CallSequence ==
    /\ pcD = "call"
    /\ entry = "sequence"
    /\ IF \A n \in 1..Len(shapes.stimuli) : shapes.diffusivity = shapes.stimuli[n]
       THEN /\ checkpoints' = Arange(window.start, window.stop, window.stepc)
            /\ shapes' = [shapes EXCEPT !.state = shapes.diffusivity]
            /\ fstate' = StateAt(window.start)
            /\ ck' = 1
            /\ pcD' = "sequence"
            /\ error' = error
       ELSE /\ error' = "AssertionError"
            /\ pcD' = "raised"
            /\ UNCHANGED <<checkpoints, shapes, fstate, ck>>
    /\ UNCHANGED <<entry, window, fwd_f, states, fi, steps, carry>>
    /\ UNCHANGED <<stimVars, gradVars, simVars>>

\* One iteration of sequence's loop: the integrator is run from checkpoints[i]
\* to checkpoints[i + 1] and the state is stored.
SequenceIteration ==
    /\ pcD = "sequence"
    /\ ck <= Len(checkpoints) - 1
    /\ IF StepAccepts(shapes)
       THEN /\ fstate' = [time |-> fstate.time + (checkpoints[ck + 1] - checkpoints[ck]),
                          ok |-> fstate.ok /\ fstate.time = checkpoints[ck]]
            /\ steps' = steps + (checkpoints[ck + 1] - checkpoints[ck])
            /\ states' = Append(states, fstate')
            /\ ck' = ck + 1
            /\ UNCHANGED <<error, pcD>>
       ELSE /\ error' = "TypeError"
            /\ pcD' = "raised"
            /\ UNCHANGED <<fstate, steps, states, ck>>
    /\ UNCHANGED <<entry, window, checkpoints, fwd_f, shapes, fi, carry>>
    /\ UNCHANGED <<stimVars, gradVars, simVars>>

SequenceReturn ==
    /\ pcD = "sequence"
    /\ ck > Len(checkpoints) - 1
    /\ pcD' = "done"
    /\ UNCHANGED <<entry, window, checkpoints, fwd_f, shapes, fstate, states, ck, fi,
                   steps, error, carry>>
    /\ UNCHANGED <<stimVars, gradVars, simVars>>

\* _forward_dormandprince: ode.odeint(step, state, ts, ...) is entered.  The
\* carry starts at ts[0] with an initial step size; the outputs start with y0.
\* No step budget is passed, so the budget is unbounded.
OdeintStart ==
    /\ pcD = "odeint"
    /\ IF StepAccepts(shapes)
       THEN /\ \E dt0 \in 0..MaxDt :
                 carry' = [n |-> 0, t |-> checkpoints[1], dt |-> dt0,
                           last_t |-> checkpoints[1], j |-> 2, ys |-> <<fstate>>]
            /\ pcD' = "scan"
            /\ error' = error
       ELSE /\ error' = "TypeError"
            /\ pcD' = "raised"
            /\ carry' = carry
    /\ UNCHANGED <<entry, window, checkpoints, fwd_f, shapes, fstate, states, ck, fi,
                   steps>>
    /\ UNCHANGED <<stimVars, gradVars, simVars>>

\* One Runge-Kutta attempt towards the target ts[j]: while t < target and
\* dt > 0.  An accepted attempt (error ratio <= 1) advances t by dt and does
\* not shrink dt; a rejected one keeps t and shrinks dt, possibly to a
\* non-positive value.
DPAttempt ==
    /\ pcD = "scan"
    /\ carry.j <= Len(checkpoints)
    /\ carry.t < checkpoints[carry.j]
    /\ carry.dt > 0
    /\ \E accept \in BOOLEAN :
          IF accept
          THEN \E ndt \in carry.dt..MaxDt :
                  carry' = [carry EXCEPT !.n = @ + 1, !.last_t = carry.t,
                                         !.t = @ + carry.dt, !.dt = ndt]
          ELSE \E ndt \in 0..(carry.dt - 1) :
                  carry' = [carry EXCEPT !.n = @ + 1, !.dt = ndt]
    /\ steps' = steps + 1
    /\ UNCHANGED <<entry, window, checkpoints, fwd_f, shapes, fstate, states, ck, fi,
                   error, pcD>>
    /\ UNCHANGED <<stimVars, gradVars, simVars>>

\* The while loop for the target ts[j] has ended: the output for ts[j] is the
\* interpolant's value, the solution at ts[j] only if t reached ts[j].
DPEmit ==
    /\ pcD = "scan"
    /\ carry.j <= Len(checkpoints)
    /\ ~(carry.t < checkpoints[carry.j] /\ carry.dt > 0)
    /\ carry' = [carry EXCEPT
                   !.n = 0,
                   !.j = @ + 1,
                   !.ys = Append(@, [time |-> checkpoints[carry.j],
                                     ok |-> carry.t >= checkpoints[carry.j]])]
    /\ UNCHANGED <<entry, window, checkpoints, fwd_f, shapes, fstate, states, ck, fi,
                   steps, error, pcD>>
    /\ UNCHANGED <<stimVars, gradVars, simVars>>

\* odeint returns y0 followed by the outputs; forward returns that unchanged.
OdeintReturn ==
    /\ pcD = "scan"
    /\ carry.j > Len(checkpoints)
    /\ states' = carry.ys
    /\ pcD' = "done"
    /\ UNCHANGED <<entry, window, checkpoints, fwd_f, shapes, fstate, ck, fi, steps,
                   error, carry>>
    /\ UNCHANGED <<stimVars, gradVars, simVars>>

NextForward ==
    \/ CallForwardDimensional
    \/ CallForward
    \/ CallSequence
    \/ ForwardDispatch
    \/ LoopCall
    \/ ForiIteration
    \/ ForiReturn
    \/ LoopReturn
    \/ SequenceIteration
    \/ SequenceReturn
    \/ OdeintStart
    \/ DPAttempt
    \/ DPEmit
    \/ OdeintReturn

SpecForward == InitForward /\ [][NextForward]_vars

-----------------------------------------------------------------------------
\* Claims about stimulate.

\* The cells of an array, and the value at a cell.
CellsOf(A) == {<<ix, j>> : ix \in 1..Len(A), j \in 1..(IF Len(A) = 0 THEN 0 ELSE Len(A[1]))}
At(A, c) == A[c[1]][c[2]]

\* m mod n with the sign of the positive divisor n.
FloorMod(m, n) == m - n * (m \div n)

\* The activation rule of the specification, for one protocol.
RuleActive(tt, protocol) ==
    /\ tt >= protocol.start
    /\ FloorMod(protocol.start - tt + 1, protocol.period) < protocol.duration

\* The stimuli of the list that the rule makes active at t with a nonzero field at c.
Injecting(c) ==
    {ix \in 1..Len(stimuli) :
        RuleActive(t, stimuli[ix].protocol) /\ At(stimuli[ix].field, c) # Zero}

SetMax(S) == CHOOSE m \in S : \A n \in S : n <= m

\* C1: in stimulate a stimulus is active at t iff t >= start and
\* ((start - t + 1) mod period) < duration, for every stimulus of the list
\* whatever the others are.
C1_ActiveIffRule ==
    pcS = "done" =>
        /\ Len(active) = Len(stimuli)
        /\ \A ix \in 1..Len(stimuli) : active[ix] <=> RuleActive(t, stimuli[ix].protocol)

\* Two stimuli of one list, one active and one not at the same time.
C1_Witness ==
    /\ pcS = "done"
    /\ \E ix, j \in 1..Len(stimuli) : active[ix] /\ ~active[j]

C2Protocol == [start |-> 10, duration |-> 2, period |-> 100]

\* The field a single stimulus s leaves when it is injected into X.
InjectedBy(s) ==
    [ix \in 1..Len(X) |-> [j \in 1..Len(X[ix]) |->
        IF s.field[ix][j] # Zero THEN s.field[ix][j] ELSE X[ix][j]]]

\* C2: with protocol (start=10, duration=2, period=100) and a nonzero field the
\* stimulus is injected at t = 10, 11, 110 and 111 and not at t = 9 or 12.
C2_Start10Duration2Period100 ==
    (/\ pcS = "done"
     /\ Len(stimuli) = 1
     /\ stimuli[1].protocol = C2Protocol
     /\ stimuli[1].field # ZeroField)
    => /\ t \in {10, 11, 110, 111} => (out = InjectedBy(stimuli[1]) /\ out # X)
       /\ t \in {9, 12} => out = X

\* The stimulus of C2 injected one period after its start.
C2_Witness ==
    /\ pcS = "done"
    /\ Len(stimuli) = 1
    /\ stimuli[1].protocol = C2Protocol
    /\ t = 111
    /\ out # X

\* C3: the returned field holds a stimulus magnitude at every cell where some
\* stimulus is active with a nonzero field value, and the input X at every
\* other cell.
C3_InjectedOrInput ==
    pcS = "done" =>
        \A c \in CellsOf(X) :
            IF Injecting(c) = {}
            THEN At(out, c) = At(X, c)
            ELSE At(out, c) \in {At(stimuli[ix].field, c) : ix \in Injecting(c)}

\* One call that overwrites a cell and leaves another one as it was, although
\* a stimulus of the list is active.
C3_Witness ==
    /\ pcS = "done"
    /\ \E c, d \in CellsOf(X) :
          /\ Injecting(c) # {}
          /\ At(out, c) # At(X, c)
          /\ Injecting(d) = {}
          /\ At(out, d) = At(X, d)
          /\ \E ix \in 1..Len(stimuli) : active[ix] /\ At(stimuli[ix].field, d) = Zero

\* C4: where several stimuli are active with a nonzero value at one cell the
\* last of the list is written; a later stimulus that is inactive or zero at
\* the cell erases nothing.
C4_LastInListWins ==
    pcS = "done" =>
        \A c \in CellsOf(X) :
            Injecting(c) # {} => At(out, c) = At(stimuli[SetMax(Injecting(c))].field, c)

\* Two active stimuli with different nonzero magnitudes at one cell.
C4_Witness ==
    /\ pcS = "done"
    /\ \E c \in CellsOf(X) : \E ix, j \in Injecting(c) :
          /\ ix < j
          /\ At(stimuli[ix].field, c) # At(stimuli[j].field, c)
          /\ At(out, c) = At(stimuli[j].field, c)

\* C19: for integer times and a protocol with 1 <= duration <= period, a
\* stimulus is active exactly at the times t >= start with
\* ((t - start) mod period) < duration: for `duration` consecutive time units
\* from start and from each start + k * period, and at no other time.
C19_ActiveForDurationFromStart ==
    pcS = "done" =>
        \A ix \in 1..Len(stimuli) :
            (/\ 1 <= stimuli[ix].protocol.duration
             /\ stimuli[ix].protocol.duration <= stimuli[ix].protocol.period) =>
                (active[ix] <=>
                    /\ t >= stimuli[ix].protocol.start
                    /\ FloorMod(t - stimuli[ix].protocol.start,
                                stimuli[ix].protocol.period)
                           < stimuli[ix].protocol.duration)

-----------------------------------------------------------------------------
\* Claims about gradient.

IsConstant(A) == \A c, d \in CellsOf(A) : At(A, c) = At(A, d)

\* C10: gradient of a constant field (axis length >= 5) is zero at every cell:
\* at the two left-edge cells, at the interior cells and at the two right-edge
\* cells.
C10_GradientOfConstantIsZero ==
    (pcG = "done" /\ IsConstant(a)) =>
        /\ CellsOf(a_grad) = CellsOf(a)
        /\ \A c \in CellsOf(a_grad) : At(a_grad, c) = Zero

\* A nonzero constant field with more than one interior cell along the axis.
C10_Witness ==
    /\ pcG = "done"
    /\ IsConstant(a)
    /\ At(a, <<1, 1>>) # Zero
    /\ Shape(a)[axis + 1] > MinAxisLen
    /\ \A c \in CellsOf(a_grad) : At(a_grad, c) = Zero

\* The lines of an array along the axis.
LinesAlong(A, ax) == IF ax = 1 THEN A ELSE Transpose(A)

IsRampLine(line) ==
    \A ix \in 1..(Len(line) - 1) :
        RSub(line[ix + 1], line[ix]) = RSub(line[2], line[1])

\* C11: gradient of a linear ramp along the axis (length >= 5) is the ramp's
\* slope at every cell: the two left-edge cells, the interior cells and the
\* two right-edge cells.
C11_GradientOfRampIsSlope ==
    pcG = "done" =>
        \A k \in 1..Len(LinesAlong(a, axis)) :
            IsRampLine(LinesAlong(a, axis)[k]) =>
                /\ Len(LinesAlong(a_grad, axis)[k]) = Len(LinesAlong(a, axis)[k])
                /\ \A ix \in 1..Len(LinesAlong(a, axis)[k]) :
                      LinesAlong(a_grad, axis)[k][ix]
                          = RSub(LinesAlong(a, axis)[k][2], LinesAlong(a, axis)[k][1])

\* A ramp of nonzero slope and nonzero offset, across the rows, with more
\* than one interior cell.
C11_Witness ==
    /\ pcG = "done"
    /\ axis = 0
    /\ Len(a) > MinAxisLen
    /\ IsRampLine(LinesAlong(a, axis)[1])
    /\ LinesAlong(a, axis)[1][1] # Zero
    /\ LinesAlong(a, axis)[1][2] # LinesAlong(a, axis)[1][1]
    /\ LinesAlong(a_grad, axis)[1][1] = RSub(LinesAlong(a, axis)[1][2], LinesAlong(a, axis)[1][1])

\* The stencil formula for cell ix (counted from 1) of a line of length n.
StencilAt(line, ix) ==
    IF ix <= 2
    THEN RAdd(RSub(RAdd(RMul(Frac(-11, 6), line[ix]), RMul(R(3), line[ix + 1])),
                   RMul(Frac(3, 2), line[ix + 2])),
              RMul(Frac(1, 3), line[ix + 3]))
    ELSE IF ix <= Len(line) - 2
    THEN RSub(RAdd(RSub(RMul(Frac(1, 12), line[ix - 2]), RMul(Frac(2, 3), line[ix - 1])),
                   RMul(Frac(2, 3), line[ix + 1])),
              RMul(Frac(1, 12), line[ix + 2]))
    ELSE RSub(RAdd(RSub(RMul(Frac(11, 6), line[ix]), RMul(R(3), line[ix - 1])),
                   RMul(Frac(3, 2), line[ix - 2])),
              RMul(Frac(1, 3), line[ix - 3]))

\* C16: along the axis, gradient returns a line of the same length n whose
\* cells 0, 1 follow the forward 3rd-order formula, cells 2 .. n-3 the centred
\* 4th-order formula and cells n-2, n-1 the mirrored backward formula, with no
\* division by dx.
C16_GradientStencils ==
    pcG = "done" =>
        /\ Shape(a_grad) = Shape(a)
        /\ \A k \in 1..Len(LinesAlong(a, axis)) :
              \A ix \in 1..Len(LinesAlong(a, axis)[k]) :
                  LinesAlong(a_grad, axis)[k][ix] = StencilAt(LinesAlong(a, axis)[k], ix)

\* A line of three different values, longer than the shortest, along the rows.
C16_Witness ==
    /\ pcG = "done"
    /\ axis = 1
    /\ Len(a[1]) > MinAxisLen
    /\ {a[1][ix] : ix \in 1..Len(a[1])} = GradValues
    /\ a_grad[1][3] # Zero
    /\ a_grad[1][3] = StencilAt(a[1], 3)

-----------------------------------------------------------------------------
\* Claims about step and the fixed-step integrators.

NoActiveStimuli ==
    stimuli # <<[field |-> OneCell(One), protocol |-> EarlyProtocol]>>

ZeroStimuli ==
    \A n \in 1..Len(stimuli) : stimuli[n].field = Full(SimShape, Zero)

ZeroTree ==
    [v |-> Full(SimShape, Zero), w |-> Full(SimShape, Zero), u |-> Full(SimShape, Zero)]

\* The run of C8: Euler steps from init(shape), zero diffusivity, no active stimuli.
RestRun ==
    /\ state0 = init(SimShape)
    /\ diffusivity = Full(SimShape, Zero)
    /\ NoActiveStimuli
    /\ integrator = "EULER"

\* The value of d_u that step returns at rest (u = 0, w = 1).
RestDu ==
    RDiv(RDiv(RAdd(One, tanh(RMul(params.k, RNeg(params.V_csi)), tanh_saturates)),
              RMul(R(2), params.tau_si)),
         params.Cm)

C9_UniformStaysUniform ==
    (/\ ZeroStimuli
     /\ diffusivity = Full(SimShape, Zero)
     /\ IsUniformState(state0)) => IsUniformState(state)

C9_Witness ==
    /\ ZeroStimuli
    /\ stimuli # <<>>
    /\ diffusivity = Full(SimShape, Zero)
    /\ IsUniformState(state0)
    /\ state0 # init(SimShape)
    /\ integrator = "HEUN"
    /\ i > t
    /\ state # state0
    /\ IsUniformState(state)

\* C12: init(shape) has v all ones, w all ones and u all zeros, each of exactly
\* the requested shape, and Euler or Heun over an empty window (t_end = t)
\* returns it unchanged.
C12_InitThenZeroSteps ==
    state0 = init(SimShape) =>
        /\ \A fld \in {"v", "w", "u"} : Shape(state0[fld]) = SimShape
        /\ \A c \in CellsOf(state0.u) :
              /\ At(state0.v, c) = One
              /\ At(state0.w, c) = One
              /\ At(state0.u, c) = Zero
        /\ (pcF = "done" /\ t_end = t) => state = state0

\* An empty window on a build and with stimuli for which one step would have
\* changed the state.
C12_Witness ==
    /\ state0 = init(SimShape)
    /\ pcF = "done"
    /\ t_end = t
    /\ i = t
    /\ ~tanh_saturates
    /\ stimuli = <<[field |-> OneCell(One), protocol |-> EarlyProtocol]>>
    /\ state = init(SimShape)

HasShape(A, shape) ==
    /\ Len(A) = shape[1]
    /\ \A r \in 1..Len(A) : Len(A[r]) = shape[2]

\* C13: in the initial state and after every Euler or Heun step the fields v,
\* w and u have the grid shape (H, W) of the initial state, and the derivative
\* step returns has that shape too.
C13_ShapesPreserved ==
    /\ \A fld \in {"v", "w", "u"} :
          /\ HasShape(state0[fld], SimShape)
          /\ HasShape(state[fld], SimShape)
    /\ i > t => \A fld \in {"v", "w", "u"} : HasShape(grads[fld], SimShape)

\* A Heun step with diffusion from a state that is not uniform.
C13_Witness ==
    /\ i > t
    /\ integrator = "HEUN"
    /\ ~IsUniformState(state0)
    /\ diffusivity # Full(SimShape, Zero)
    /\ state.u # state0.u
    /\ HasShape(state.u, SimShape)
    /\ HasShape(grads.u, SimShape)

\* C14: _forward_euler over [t, t_end] applies exactly t_end - t updates
\* state := state + step(state, i, ...) * dt, the counter i (the time given to
\* step) going through t, t + 1, ..., t_end - 1 in ascending order, and
\* returns when the counter is t_end, whatever dt is: the counter stays within
\* t .. t_end, every change of the state or the counter is one update at the
\* counter followed by its increment, and the call returns only at t_end.
C14_EulerFixedCount ==
    [][integrator = "EULER" =>
          /\ t <= i /\ i <= t_end
          /\ (i' # i \/ state' # state) =>
                /\ i < t_end
                /\ i' = i + 1
                /\ state' = TreeAxpy(state,
                                     step(state, i, params, diffusivity, stimuli, SimDx,
                                          tanh_saturates),
                                     sim_dt)
          /\ pcF' = "done" => (i' = t_end /\ i' - t = t_end - t)]_vars

\* The longest window, not starting at 0, with dt = 1, returned after
\* updates that changed the state.
C14_Witness ==
    /\ integrator = "EULER"
    /\ pcF = "done"
    /\ t = 1
    /\ t_end = t + MaxSteps
    /\ i = t_end
    /\ sim_dt = One
    /\ state # state0

\* y + ((k1 + k2) / 2) * dt, field by field and cell by cell.
TrapezoidUpdate(y, k1, k2, dt) ==
    [fld \in {"v", "w", "u"} |->
        Mat([r \in 1..Len(y[fld]) |-> [c \in 1..Len(y[fld][r]) |->
            RAdd(y[fld][r][c],
                 RMul(RDiv(RAdd(k1[fld][r][c], k2[fld][r][c]), R(2)), dt))]])]

\* The derivative at the start of the call, and at the Euler-predicted state.
HeunK1 == step(state0, t, params, diffusivity, stimuli, SimDx, tanh_saturates)
HeunK2(k1) ==
    step(TreeAxpy(state0, k1, sim_dt), t, params, diffusivity, stimuli, SimDx,
         tanh_saturates)
HeunTrapezoid(k1) == TrapezoidUpdate(state0, k1, HeunK2(k1), sim_dt)

\* C15: one Heun step from y at time t returns y + ((k1 + k2) / 2) * dt with
\* k1 = step(y, t) and k2 = step(y + k1 * dt, t): the final update is applied
\* to y, not to the predicted state.
C15_HeunIsTrapezoid ==
    (integrator = "HEUN" /\ i = t + 1) =>
        state = HeunTrapezoid(HeunK1)

\* A Heun step whose two derivatives differ, at a time other than 0.
C15_Witness ==
    /\ integrator = "HEUN"
    /\ i = t + 1
    /\ t = 1
    /\ HeunK1 # HeunK2(HeunK1)
    /\ HeunK1.v # ZeroTree.v
    /\ state.u # TreeAxpy(state0, HeunK1, sim_dt).u
    /\ state = HeunTrapezoid(HeunK1)

\* The current that drives u at cell c in the first step of the call: the
\* magnitude of the (last) stimulus active at t with a nonzero field at c, or
\* the ionic current of the cell where there is none.
DrivingCurrent(c) ==
    IF Injecting(c) # {}
    THEN At(stimuli[SetMax(Injecting(c))].field, c)
    ELSE JIon(At(state0.v, c), At(state0.w, c), At(state0.u, c), params, tanh_saturates)

\* del_u plus the driving current, cell by cell.
DuFrom(del_u) ==
    Mat([r \in 1..Len(del_u) |-> [c \in 1..Len(del_u[r]) |->
        RAdd(del_u[r][c], DrivingCurrent(<<r, c>>))]])

\* C17: in the derivative step returns, d_u is del_u + m at a cell where a
\* stimulus is active at t with nonzero magnitude m (the stimulus replaces
\* j_ion, it is not added to it) and del_u + j_ion at every other cell; d_v and
\* d_w are what they are without any stimulus.
C17_StimulusReplacesIonicCurrent ==
    i = t + 1 =>
        /\ grads.u = DuFrom(Crop(DelU(PadEdge(state0.u), PadEdge(diffusivity), SimDx)))
        /\ grads.v = step(state0, t, params, diffusivity, <<>>, SimDx, tanh_saturates).v
        /\ grads.w = step(state0, t, params, diffusivity, <<>>, SimDx, tanh_saturates).w

\* An active stimulus on one cell of an excited tissue with diffusion: the
\* cell's ionic current is not zero, and differs from the stimulus.
C17_Witness ==
    /\ i = t + 1
    /\ Injecting(<<1, 1>>) # {}
    /\ Injecting(<<2, 2>>) = {}
    /\ diffusivity # Full(SimShape, Zero)
    /\ JIon(At(state0.v, <<1, 1>>), At(state0.w, <<1, 1>>), At(state0.u, <<1, 1>>),
            params, tanh_saturates) \notin {Zero, One}
    /\ grads.u = DuFrom(Crop(DelU(PadEdge(state0.u), PadEdge(diffusivity), SimDx)))

\* The piecewise gating derivatives of one cell.
PiecewiseDV(v, u, pr) ==
    IF ~RGeq(u, pr.V_c)
    THEN RDiv(RSub(One, v), IF ~RGeq(u, pr.V_v) THEN pr.tau_v1_minus ELSE pr.tau_v2_minus)
    ELSE RDiv(RNeg(v), pr.tau_v_plus)

PiecewiseDW(w, u, pr) ==
    IF ~RGeq(u, pr.V_c)
    THEN RDiv(RSub(One, w), pr.tau_w_minus)
    ELSE RDiv(RNeg(w), pr.tau_w_plus)

\* C18: per cell, d_v = (1 - v)/tau_v_minus and d_w = (1 - w)/tau_w_minus if
\* u < V_c, and d_v = -v/tau_v_plus and d_w = -w/tau_w_plus if u >= V_c, with
\* tau_v_minus = tau_v1_minus if u < V_v and tau_v2_minus if u >= V_v; they are
\* functions of the cell's own v, w, u only, whatever the neighbours and the
\* diffusivity are.
C18_GatingDerivativesPiecewise ==
    i = t + 1 =>
        \A c \in CellsOf(state0.u) :
            /\ At(grads.v, c) = PiecewiseDV(At(state0.v, c), At(state0.u, c), params)
            /\ At(grads.w, c) = PiecewiseDW(At(state0.w, c), At(state0.u, c), params)

\* A cell exactly at V_v and below V_c, next to cells below V_v, with diffusion.
C18_Witness ==
    /\ i = t + 1
    /\ At(state0.u, <<1, 1>>) = params.V_v
    /\ ~RGeq(At(state0.u, <<1, 1>>), params.V_c)
    /\ At(state0.u, <<1, 2>>) = Zero
    /\ diffusivity # Full(SimShape, Zero)
    /\ At(grads.v, <<1, 1>>) = RDiv(One, params.tau_v2_minus)
    /\ At(grads.v, <<1, 2>>) = RDiv(One, params.tau_v1_minus)
    /\ At(grads.w, <<1, 1>>) = RDiv(One, params.tau_w_minus)

-----------------------------------------------------------------------------
\* Claims about the simulation drivers.

\* C5: for every integrator and every ascending checkpoint list, forward
\* returns exactly len(checkpoints) - 1 states, the i-th being the state at
\* checkpoints[i + 1]; the initial state is not among them.
C5_ForwardReturnsNewStates ==
    (pcD = "done" /\ entry \in {"forward", "forward_dimensional"}) =>
        /\ Len(states) = Len(checkpoints) - 1
        /\ \A ix \in 1..Len(states) : states[ix] = StateAt(checkpoints[ix + 1])

\* C6: when the Dormand-Prince integration stops before the requested time
\* (its step size collapsed, or its budget ran out), the run reports a failure
\* instead of returning: no returned state is an unconverged one.
C6_NonConvergenceReported ==
    (pcD = "done" /\ fwd_f = "DORMANDPRINCE") =>
        \A ix \in 1..Len(states) : states[ix].ok

\* The diffusivity or a stimulus field differs in shape from the state fields
\* (sequence makes the state itself, with the diffusivity's shape).
ShapeMismatch ==
    LET s == IF entry = "sequence" THEN shapes.diffusivity ELSE shapes.state
    IN  \/ shapes.diffusivity # s
        \/ \E n \in 1..Len(shapes.stimuli) : shapes.stimuli[n] # s

\* C7: when the diffusivity or a stimulus field differs in shape from the
\* state fields, the run ends with an error raised before any integrator step
\* is executed, whichever entry point started it.
C7_ShapeMismatchFailsFast ==
    ShapeMismatch =>
        /\ steps = 0
        /\ pcD \in {"done", "raised"} => (pcD = "raised" /\ error # "none")

\* C20: for ascending checkpoints c_0 < ... < c_n and Euler or Heun, forward
\* integrates the windows [c_i, c_i+1] in order, each from the state the
\* previous one produced, without gap or overlap: the k-th returned state is
\* the state one integrator call over [c_0, c_k] produces (steps taken at
\* c_0, c_0 + 1, ..., c_k - 1, each once, in order), and c_n - c_0 steps are
\* taken in all.
C20_WindowsCompose ==
    (pcD = "done" /\ entry \in {"forward", "forward_dimensional"}
                  /\ fwd_f \in {"EULER", "HEUN"}) =>
        /\ Len(states) = Len(checkpoints) - 1
        /\ \A k \in 1..Len(states) :
              /\ states[k].ok
              /\ states[k].time = checkpoints[k + 1]
        /\ steps = checkpoints[Len(checkpoints)] - checkpoints[1]

\* Three checkpoints, the second window of more than one step.
C20_Witness ==
    /\ pcD = "done"
    /\ entry = "forward"
    /\ fwd_f = "HEUN"
    /\ Len(checkpoints) = 3
    /\ checkpoints[3] - checkpoints[2] > 1
    /\ Len(states) = 2
    /\ states[2] = StateAt(checkpoints[3])
    /\ steps = checkpoints[3] - checkpoints[1]

\* The least q with q * d >= n, for n >= 0 and d > 0.
CeilDiv(n, d) == CHOOSE q \in 0..n : q * d >= n /\ (q - 1) * d < n

\* C21: forward_dimensional's checkpoints are the multiples of step in
\* [0, stop): each is strictly below stop; the run starts from init(shape) at
\* time 0; and for Euler and Heun ceil(stop / step) - 1 states are returned
\* (none when stop <= step), none of them for a time at or beyond stop.
C21_CheckpointsBelowStop ==
    (entry = "forward_dimensional" /\ pcD \notin {"call", "raised"}) =>
        /\ Len(checkpoints) = CeilDiv(window.stop, window.stepc)
        /\ \A k \in 1..Len(checkpoints) :
              /\ checkpoints[k] = (k - 1) * window.stepc
              /\ checkpoints[k] < window.stop
        /\ pcD = "forward" => fstate = StateAt(0)
        /\ (pcD = "done" /\ fwd_f \in {"EULER", "HEUN"}) =>
              /\ Len(states) = IF window.stop <= window.stepc
                               THEN 0
                               ELSE CeilDiv(window.stop, window.stepc) - 1
              /\ \A k \in 1..Len(states) :
                    /\ states[k].time = k * window.stepc
                    /\ states[k].time < window.stop

\* A stop that is not a multiple of the step: checkpoints 0 and 2 below stop
\* 3, one state returned, for time 2.
C21_Witness ==
    /\ entry = "forward_dimensional"
    /\ pcD = "done"
    /\ fwd_f = "EULER"
    /\ window.stop = 3
    /\ window.stepc = 2
    /\ checkpoints = <<0, 2>>
    /\ states = <<StateAt(2)>>

\* No state is returned when stop <= step.
C21_WitnessShortRun ==
    /\ entry = "forward_dimensional"
    /\ pcD = "done"
    /\ fwd_f = "HEUN"
    /\ window.stop = window.stepc
    /\ states = <<>>

====
